---- MODULE Spec2Model ----
(***************************************************************************)
(* Model of the CI/CD backend API (backend/app/main.py, database.py,       *)
(* models.py): the read-only HTTP handlers over the relational store.      *)
(*                                                                         *)
(* The store tables are functions from primary key (1..n) to rows.  Enum   *)
(* columns hold the enum member NAME ("PENDING"), which is what            *)
(* sqlalchemy.Enum persists for a Python enum class; the JSON response     *)
(* carries the member VALUE ("pending").  An optional query parameter is   *)
(* a sequence of length 0 (omitted, Python None) or 1.                     *)
(*                                                                         *)
(* A handler runs from one await to the next without interruption.  At an  *)
(* await the other requests run, and the pipeline that records the rows    *)
(* may commit at any time: a handler with several statements reads the     *)
(* store once per statement.                                               *)
(***************************************************************************)
EXTENDS Integers, Sequences, FiniteSets, TLC

VARIABLES DATABASE_URL, db_up, approval_requests, deployments,
          test_summaries, security_scans, pc, request, response, executed,
          frame, inflight, sessions, connections

vars == <<DATABASE_URL, db_up, approval_requests, deployments,
          test_summaries, security_scans, pc, request, response, executed,
          frame, inflight, sessions, connections>>

(* the request being served one at a time: where its handler stands, what  *)
(* it was called with, its answer, the statements it has executed and the  *)
(* local variables it keeps across its awaits                              *)
serving == <<pc, request, response, executed, frame>>

(* the requests being handled concurrently, the sessions get_db has opened *)
(* for each and the pool connections each holds                            *)
concurrent == <<inflight, sessions, connections>>

store == <<approval_requests, deployments, test_summaries, security_scans>>

----------------------------------------------------------------------------
(* Bounds of the model *)

MaxRows == 2

MaxDetailRows == 3

MaxTime == 2

MaxLimit == 1

MaxCount == 1

MaxRequests == 2

----------------------------------------------------------------------------
(* Program constants *)

DefaultApprovalLimit == 10

DefaultDeploymentLimit == 20

None == << >>

Some(v) == << v >>

(* models.py: class ApprovalStatus(str, enum.Enum), member name -> value *)
ApprovalStatus ==
    [PENDING |-> "pending", APPROVED |-> "approved",
     REJECTED |-> "rejected", CANCELLED |-> "cancelled"]

(* models.py: class Environment(str, enum.Enum), member name -> value *)
Environment == [STAGING |-> "staging", PRODUCTION |-> "production"]

EnumNames(enum) == DOMAIN enum

EnumValues(enum) == {enum[n] : n \in DOMAIN enum}

(* database.py: the engine's dialect follows from DATABASE_URL; an unset   *)
(* variable ("") falls back to the PostgreSQL default, and the             *)
(* postgresql:// scheme is rewritten to postgresql+asyncpg://.             *)
Dialect(url) ==
    IF url = "" \/ url = "postgresql://" THEN "postgresql+asyncpg" ELSE url

----------------------------------------------------------------------------
(* sqlalchemy.Enum as used by Column(Enum(ApprovalStatus)) and             *)
(* Column(Enum(Environment))                                               *)

(* Bind side (Enum._db_value_for_elem): an enum member is looked up to its *)
(* name; the members are str subclasses, so a plain string equal to a      *)
(* member value hits the same key.  A member name maps to itself.  Any     *)
(* other string is passed to the database as is.                           *)
db_value_for_elem(enum, elem) ==
    IF elem \in EnumValues(enum)
    THEN CHOOSE n \in EnumNames(enum) : enum[n] = elem
    ELSE elem

(* Result side (Enum._object_value_for_elem) followed by the JSON encoding *)
(* of the member, which is its value.                                      *)
object_value_for_elem(enum, label) == enum[label]

(* datetime.isoformat() if the value is set, else None *)
isoformat(t) == IF t = 0 THEN None ELSE Some([iso |-> t])

----------------------------------------------------------------------------
(* Rows and queries *)

Rows(table) == {[id |-> i, row |-> table[i]] : i \in DOMAIN table}

(* a bug: ascending instead of .desc() *)
Ascending(a, b) == a <= b

(* T.col.desc(): a row comes before every row with a smaller key *)
Descending(a, b) == a >= b

Injective(f) == \A i, j \in DOMAIN f : f[i] = f[j] => i = j

(* ORDER BY key DESC: every arrangement of the rows in which the key never *)
(* increases; rows with equal keys come in an order the database picks.    *)
OrderByDesc(rows, col) ==
    {p \in [1..Cardinality(rows) -> rows] :
        /\ Injective(p)
        /\ \A i \in 1..(Cardinality(rows) - 1) : Descending(p[i].row[col], p[i + 1].row[col])}

Min(a, b) == IF a <= b THEN a ELSE b

(* a bug: one row too many *)
LimitOffByOne(p, n) == IF n < 0 THEN p ELSE SubSeq(p, 1, Min(n + 1, Len(p)))

(* LIMIT n on an ordered result.  A negative n (the parameter is an        *)
(* unconstrained int) means no limit on SQLite; PostgreSQL rejects it.     *)
Limit(p, n) == IF n < 0 THEN p ELSE SubSeq(p, 1, Min(n, Len(p)))

(* query = select(T).order_by(T.col.desc()).limit(limit) *)
Select(table, col, limit) ==
    [from |-> table, order_by |-> col, limit |-> limit, where |-> None]

(* query = query.where(T.col == value), the value bound through the        *)
(* column's Enum type                                                      *)
Where(query, enum, value) ==
    [query EXCEPT !.where = Some(db_value_for_elem(enum, value))]

(* if status: query = query.where(...)  -- None and "" are both falsy *)
WhereIfGiven(query, enum, param) ==
    IF param # None /\ param[1] # ""
    THEN Where(query, enum, param[1])
    ELSE query

(* a bug: the filter is dropped *)
ApplyWhereDropped(rows, col, where) == rows

(* WHERE col = :bound *)
ApplyWhere(rows, col, where) ==
    IF where = None THEN rows ELSE {r \in rows : r.row[col] = where[1]}

(* The statement is rejected by PostgreSQL when the bound value is not a   *)
(* label of the native enum type, or when the limit is negative.           *)
Rejected(dialect, enum, query) ==
    /\ dialect = "postgresql+asyncpg"
    /\ \/ query.where # None /\ query.where[1] \notin EnumNames(enum)
       \/ query.limit < 0

(* a bug: the clauses applied in the order of the generative calls, the    *)
(* limit cutting the ordered rows before the filter is applied             *)
ExecuteLimitFirst(up, dialect, enum, col, query) ==
    IF ~up \/ Rejected(dialect, enum, query)
    THEN {[raised |-> TRUE, rows |-> << >>]}
    ELSE {[raised |-> FALSE,
           rows |-> SelectSeq(Limit(p, query.limit),
                              LAMBDA r : query.where = None \/ r.row[col] = query.where[1])] :
            p \in OrderByDesc(Rows(query.from), query.order_by)}

(* await db.execute(query); result.scalars().all()                         *)
(* The compiled SELECT applies WHERE, then ORDER BY, then LIMIT, whatever  *)
(* the order of the generative calls.  The outcomes are: the exception     *)
(* (raised), or one of the row sequences the database may return.          *)
Execute(up, dialect, enum, col, query) ==
    IF ~up \/ Rejected(dialect, enum, query)
    THEN {[raised |-> TRUE, rows |-> << >>]}
    ELSE {[raised |-> FALSE, rows |-> Limit(p, query.limit)] :
            p \in OrderByDesc(ApplyWhere(Rows(query.from), col, query.where),
                             query.order_by)}

(* result.scalar_one_or_none(): None for no row, the row for exactly one,  *)
(* MultipleResultsFound (raised) for two or more.                          *)
scalar_one_or_none(rows) ==
    IF Cardinality(rows) >= 2 THEN [raised |-> TRUE, value |-> None]
    ELSE IF rows = {} THEN [raised |-> FALSE, value |-> None]
    ELSE [raised |-> FALSE, value |-> Some(CHOOSE r \in rows : TRUE)]

----------------------------------------------------------------------------
(* HTTP responses *)

NoResponse == [code |-> 0, body |-> [shape |-> "none"]]

null == [json |-> "null"]

(* A route declared with @app.get(path) and no status_code answers 200     *)
(* with the JSON encoding of whatever the handler returns.                 *)
JSONResponse(content) == [code |-> 200, body |-> content]

(* An exception that leaves the handler is answered by the server's        *)
(* error middleware.                                                       *)
InternalServerError ==
    [code |-> 500, body |-> [shape |-> "text", text |-> "Internal Server Error"]]

(* one element of the "approvals" list *)
ApprovalItem(a) ==
    [id |-> a.id,
     status |-> object_value_for_elem(ApprovalStatus, a.row.status),
     requested_at |-> isoformat(a.row.requested_at)]

(* one element of the "deployments" list *)
DeploymentItem(d) ==
    [id |-> d.id,
     environment |-> object_value_for_elem(Environment, d.row.environment),
     started_at |-> isoformat(d.row.started_at)]

(* "test_summary": {...} if test_summary else None *)
TestSummarySection(ts) ==
    IF ts # None THEN [total |-> ts[1].row.total_tests] ELSE null

(* "security_scan": {...} if security_scan else None *)
SecurityScanSection(ss) ==
    IF ss # None THEN [critical |-> ss[1].row.critical_count] ELSE null

(* the detail object returned by get_approval *)
ApprovalDetail(approval, test_summary, security_scan) ==
    [shape |-> "object",
     id |-> approval.id,
     status |-> object_value_for_elem(ApprovalStatus, approval.row.status),
     requested_at |-> isoformat(approval.row.requested_at),
     test_summary |-> TestSummarySection(test_summary),
     security_scan |-> SecurityScanSection(security_scan)]

(* return {"error": "Approval not found"}, 404 -- a tuple *)
NotFound == [shape |-> "array", items |-> << [error |-> "Approval not found"], 404 >>]

----------------------------------------------------------------------------
(* Request inputs *)

StatusParams ==
    {None} \cup {Some(v) : v \in EnumValues(ApprovalStatus) \cup {"", "PENDING", "bogus"}}

EnvironmentParams ==
    {None} \cup {Some(v) : v \in EnumValues(Environment) \cup {"", "STAGING", "qa"}}

LimitParams == {None} \cup {Some(n) : n \in -1..MaxLimit}

IdParams == 0..(MaxDetailRows + 1)

Times == 1..MaxTime

(* psutil reports a percentage with one decimal, which round(x, 2) leaves  *)
(* as it is                                                                *)
Percentages == {0, 100}

(* what the process environment may hold for a variable: nothing, or a    *)
(* value                                                                   *)
Environ(value) == {None, Some(value)}

(* os.getenv(key, default) *)
getenv(value, default) == IF value = None THEN default ELSE value[1]

(* limit: int = <default> *)
LimitArg(param, default) == IF param = None THEN default ELSE param[1]

----------------------------------------------------------------------------
(* State *)

ApprovalRequestRow == [status : EnumNames(ApprovalStatus), requested_at : Times]

DeploymentRow == [environment : EnumNames(Environment), started_at : Times]

TestSummaryRow(na) == [approval_id : 1..na, total_tests : 0..MaxCount]

SecurityScanRow(na) == [approval_id : 1..na, critical_count : 0..MaxCount]

(* the local variables of get_approval that live across its awaits *)
NoFrame == [approval |-> None, test_summary |-> None]

(* a request slot of the server before any request has come in *)
NoRequest ==
    [pc |-> "idle", endpoint |-> "none", raised |-> FALSE, executed |-> 0, approval_id |-> 0]

(* The tables with at most n rows in all.  A child row refers to an        *)
(* existing approval (foreign key approval_requests.id).                   *)
StoreWithin(n, withDeployments) ==
    \E na, nd, nt, ns \in 0..n :
        /\ na + nd + nt + ns <= n
        /\ withDeployments \/ nd = 0
        /\ approval_requests \in [1..na -> ApprovalRequestRow]
        /\ deployments \in [1..nd -> DeploymentRow]
        /\ test_summaries \in [1..nt -> TestSummaryRow(na)]
        /\ security_scans \in [1..ns -> SecurityScanRow(na)]

(* The configuration read from the environment at import.  A store that    *)
(* cannot be reached at startup begins empty: init_db creates its tables   *)
(* once it can be reached, and the pipeline fills them.                    *)
Configured(n, withDeployments) ==
    /\ DATABASE_URL \in {"", "sqlite+aiosqlite://"}
    /\ db_up \in BOOLEAN
    /\ IF db_up THEN StoreWithin(n, withDeployments) ELSE StoreWithin(0, FALSE)
    /\ pc = "idle"
    /\ request = [endpoint |-> "none"]
    /\ response = NoResponse
    /\ executed = 0
    /\ frame = NoFrame
    /\ inflight = [r \in 1..MaxRequests |-> NoRequest]
    /\ sessions = [r \in 1..MaxRequests |-> 0]
    /\ connections = [r \in 1..MaxRequests |-> 0]

(* The state after startup: whatever the pipeline has recorded so far. *)
Init == Configured(MaxRows, TRUE)

(* The same, over stores large enough for an approval to have two child   *)
(* rows of a kind.                                                         *)
InitDetail == Configured(MaxDetailRows, FALSE)

(* a bug: a handler that marks what it has read, and commits *)
ServedAndCommitted(req, resp, n) ==
    /\ pc' = "responded"
    /\ request' = req
    /\ response' = resp
    /\ executed' = n
    /\ approval_requests' =
          [i \in DOMAIN approval_requests |->
             [approval_requests[i] EXCEPT !.status = "APPROVED"]]
    /\ UNCHANGED <<DATABASE_URL, db_up, deployments, test_summaries, security_scans,
                   frame, inflight, sessions, connections>>

(* What every handler does with its result.  The tables are left alone:    *)
(* no handler adds, flushes or commits anything on its session, and get_db *)
(* closes the session without a commit.  The local variables are as the    *)
(* handler leaves them at its return or raise.                             *)
Served(req, resp, n) ==
    /\ pc' = "responded"
    /\ request' = req
    /\ response' = resp
    /\ executed' = n
    /\ UNCHANGED <<DATABASE_URL, db_up, approval_requests, deployments,
                   test_summaries, security_scans, frame, inflight, sessions,
                   connections>>

(* The handler has executed its n-th statement and goes on to the next     *)
(* await with its local variables.                                         *)
Awaiting(at, req, locals, n) ==
    /\ pc' = at
    /\ request' = req
    /\ response' = NoResponse
    /\ executed' = n
    /\ frame' = locals
    /\ UNCHANGED <<DATABASE_URL, db_up, approval_requests, deployments,
                   test_summaries, security_scans, inflight, sessions, connections>>

----------------------------------------------------------------------------
(* Handlers *)

(* a bug: a health check that pings the store *)
health_check_pinging ==
    /\ pc = "idle"
    /\ \E now \in Times :
        Served([endpoint |-> "health_check"],
               IF db_up
               THEN JSONResponse([shape |-> "object", status |-> "healthy",
                                  timestamp |-> isoformat(now), service |-> "backend"])
               ELSE InternalServerError,
               1)

(* GET /health *)
health_check ==
    /\ pc = "idle"
    /\ \E now \in Times :
        Served([endpoint |-> "health_check"],
               JSONResponse([shape |-> "object", status |-> "healthy",
                             timestamp |-> isoformat(now), service |-> "backend"]),
               0)

(* GET /api/v1/hello *)
hello ==
    /\ pc = "idle"
    /\ \E now \in Times :
        Served([endpoint |-> "hello"],
               JSONResponse([shape |-> "object",
                             message |-> "Hello from Raspberry Pi CI/CD Platform - Automated Deployment!",
                             version |-> "1.0.1", timestamp |-> isoformat(now)]),
               0)

(* GET /api/v1/info: the three readings of psutil and the two variables of *)
(* the process environment as they are when the handler runs.  The handler *)
(* has no await: cpu_percent(interval=1) sleeps inside this one step.      *)
system_info ==
    /\ pc = "idle"
    /\ \E cpu \in Percentages, memory \in Percentages, disk \in Percentages,
          HOSTNAME \in Environ("pi4"), APP_ENV \in Environ("production") :
        Served([endpoint |-> "system_info"],
               JSONResponse([shape |-> "object", cpu_percent |-> cpu,
                             memory_percent |-> memory, disk_percent |-> disk,
                             hostname |-> getenv(HOSTNAME, "unknown"),
                             environment |-> getenv(APP_ENV, "development")]),
               0)

(* GET / *)
root ==
    /\ pc = "idle"
    /\ Served([endpoint |-> "root"],
           JSONResponse([shape |-> "object", name |-> "CI/CD Backend API",
                         version |-> "1.0.1", docs |-> "/docs", health |-> "/health",
                         database |-> IF DATABASE_URL # "" THEN "connected"
                                      ELSE "not configured"]),
           0)

(* GET /api/v1/approvals *)
list_approvals ==
    /\ pc = "idle"
    /\ \E status \in StatusParams, limit \in LimitParams :
        LET query == WhereIfGiven(
                        Select(approval_requests, "requested_at",
                               LimitArg(limit, DefaultApprovalLimit)),
                        ApprovalStatus, status)
        IN \E result \in Execute(db_up, Dialect(DATABASE_URL), ApprovalStatus,
                                  "status", query) :
              Served([endpoint |-> "list_approvals", status |-> status, limit |-> limit],
                     IF result.raised THEN InternalServerError
                     ELSE JSONResponse(
                            [shape |-> "object", count |-> Len(result.rows),
                             approvals |-> [i \in 1..Len(result.rows) |->
                                              ApprovalItem(result.rows[i])]]),
                     1)

(* GET /api/v1/deployments *)
list_deployments ==
    /\ pc = "idle"
    /\ \E environment \in EnvironmentParams, limit \in LimitParams :
        LET query == WhereIfGiven(
                        Select(deployments, "started_at",
                               LimitArg(limit, DefaultDeploymentLimit)),
                        Environment, environment)
        IN \E result \in Execute(db_up, Dialect(DATABASE_URL), Environment,
                                  "environment", query) :
              Served([endpoint |-> "list_deployments", environment |-> environment,
                      limit |-> limit],
                     IF result.raised THEN InternalServerError
                     ELSE JSONResponse(
                            [shape |-> "object", count |-> Len(result.rows),
                             deployments |-> [i \in 1..Len(result.rows) |->
                                                DeploymentItem(result.rows[i])]]),
                     1)

(* select(T).where(T.approval_id == approval_id) *)
ByApproval(table, approval_id) ==
    {r \in Rows(table) : r.row.approval_id = approval_id}

(* select(ApprovalRequest).where(ApprovalRequest.id == approval_id) *)
ById(table, id) == {r \in Rows(table) : r.id = id}

(* GET /api/v1/approvals/{approval_id}, up to its second await: the        *)
(* approval is read and, if there is none, the not-found tuple returned.   *)
get_approval ==
    /\ pc = "idle"
    /\ \E approval_id \in IdParams :
        LET req == [endpoint |-> "get_approval", approval_id |-> approval_id]
            approval == scalar_one_or_none(ById(approval_requests, approval_id))
        IN IF ~db_up \/ approval.raised
           THEN Served(req, InternalServerError, 1)
           ELSE IF approval.value = None
           THEN Served(req, JSONResponse(NotFound), 1)
           ELSE Awaiting("get_approval_test_summary", req,
                         [NoFrame EXCEPT !.approval = approval.value], 1)

(* get_approval from its second await to its third: the test summary is    *)
(* read from the store as it is now.                                       *)
get_approval_test_summary ==
    /\ pc = "get_approval_test_summary"
    /\ LET test_summary ==
              scalar_one_or_none(ByApproval(test_summaries, request.approval_id))
       IN IF ~db_up \/ test_summary.raised
          THEN Served(request, InternalServerError, 2)
          ELSE Awaiting("get_approval_security_scan", request,
                        [frame EXCEPT !.test_summary = test_summary.value], 2)

(* get_approval from its third await to its return: the security scan is   *)
(* read from the store as it is now, and the detail object is put together *)
(* from the three reads.                                                   *)
get_approval_security_scan ==
    /\ pc = "get_approval_security_scan"
    /\ LET security_scan ==
              scalar_one_or_none(ByApproval(security_scans, request.approval_id))
       IN IF ~db_up \/ security_scan.raised
          THEN Served(request, InternalServerError, 3)
          ELSE Served(request,
                      JSONResponse(ApprovalDetail(frame.approval[1], frame.test_summary,
                                                  security_scan.value)),
                      3)

(* The response has gone out and the server waits for the next request. *)
next_request ==
    /\ pc = "responded"
    /\ pc' = "idle"
    /\ request' = [endpoint |-> "none"]
    /\ response' = NoResponse
    /\ executed' = 0
    /\ frame' = NoFrame
    /\ UNCHANGED <<DATABASE_URL, db_up, approval_requests, deployments,
                   test_summaries, security_scans, inflight, sessions, connections>>

(* an INSERT of the pipeline: one more row in one of the tables, under the *)
(* next primary key                                                        *)
Inserts(withDeployments) ==
    {<<Append(approval_requests, row), deployments, test_summaries, security_scans>> :
        row \in ApprovalRequestRow}
    \cup (IF withDeployments
          THEN {<<approval_requests, Append(deployments, row), test_summaries,
                  security_scans>> : row \in DeploymentRow}
          ELSE {})
    \cup {<<approval_requests, deployments, Append(test_summaries, row), security_scans>> :
            row \in TestSummaryRow(Len(approval_requests))}
    \cup {<<approval_requests, deployments, test_summaries, Append(security_scans, row)>> :
            row \in SecurityScanRow(Len(approval_requests))}

(* an UPDATE of the pipeline on a row that exists: the status of an        *)
(* approval is written when it is reviewed (ApprovalRequest.status with    *)
(* reviewed_at), the figures of a test summary and of a security scan are  *)
(* rewritten (TestSummary.updated_at).  An update of a deployment writes   *)
(* its status and completed_at, neither of which a row carries here, and   *)
(* so leaves the tables as they are.                                       *)
Updates ==
    {<<[approval_requests EXCEPT ![i].status = status], deployments, test_summaries,
       security_scans>> :
        i \in DOMAIN approval_requests, status \in EnumNames(ApprovalStatus)}
    \cup {<<approval_requests, deployments, [test_summaries EXCEPT ![i].total_tests = n],
            security_scans>> : i \in DOMAIN test_summaries, n \in 0..MaxCount}
    \cup {<<approval_requests, deployments, test_summaries,
            [security_scans EXCEPT ![i].critical_count = n]>> :
            i \in DOMAIN security_scans, n \in 0..MaxCount}

(* what one commit of the pipeline may leave in the four tables, which     *)
(* hold at most n rows in all                                              *)
Commits(n, withDeployments) ==
    Updates \cup
    (IF Len(approval_requests) + Len(deployments) + Len(test_summaries)
          + Len(security_scans) < n
     THEN Inserts(withDeployments)
     ELSE {})

(* The pipeline, which is not part of this program, records a row or       *)
(* changes one while the server runs: between two requests or between two  *)
(* statements of one.  A commit that comes after the last statement of a   *)
(* request is seen by the next request only, and is taken after            *)
(* next_request.                                                           *)
pipeline_commit(n, withDeployments) ==
    /\ pc # "responded"
    /\ db_up
    /\ \E committed \in Commits(n, withDeployments) :
          /\ approval_requests' = committed[1]
          /\ deployments' = committed[2]
          /\ test_summaries' = committed[3]
          /\ security_scans' = committed[4]
    /\ UNCHANGED <<DATABASE_URL, db_up, pc, request, response, executed, frame,
                   inflight, sessions, connections>>

(* The store goes out of reach, or comes back with the rows it had: the    *)
(* next statement finds it as it then is.  As with a commit, a change      *)
(* after the last statement of a request is taken after next_request.      *)
store_outage ==
    /\ pc # "responded"
    /\ db_up' = ~db_up
    /\ UNCHANGED <<DATABASE_URL, approval_requests, deployments, test_summaries,
                   security_scans, pc, request, response, executed, frame,
                   inflight, sessions, connections>>

Next ==
    \/ health_check
    \/ hello
    \/ system_info
    \/ root
    \/ list_approvals
    \/ list_deployments
    \/ get_approval
    \/ get_approval_test_summary
    \/ get_approval_security_scan
    \/ next_request
    \/ pipeline_commit(MaxRows, TRUE)
    \/ store_outage

Spec == Init /\ [][Next]_vars

NextDetail ==
    \/ get_approval
    \/ get_approval_test_summary
    \/ get_approval_security_scan
    \/ next_request
    \/ pipeline_commit(MaxDetailRows, FALSE)
    \/ store_outage

SpecDetail == InitDetail /\ [][NextDetail]_vars

----------------------------------------------------------------------------
(* Concurrent requests: each request resolves its dependencies, runs its   *)
(* handler and tears its dependencies down, interleaved with the others.   *)

Requests == 1..MaxRequests

(* the handlers declared with db: AsyncSession = Depends(get_db) *)
UsesDb(endpoint) ==
    endpoint \in {"list_approvals", "get_approval", "list_deployments"}

(* health_check stands for the handlers that take no session *)
Endpoints == {"list_approvals", "get_approval", "list_deployments", "health_check"}

(* the number of statements a handler awaits on its way to the last return *)
Statements(endpoint) == IF endpoint = "get_approval" THEN 3 ELSE 1

(* Whether the statement of a list handler raises, for every input the     *)
(* handler may be called with                                              *)
Outcomes(endpoint) ==
    IF endpoint = "list_approvals"
    THEN UNION {{result.raised :
                   result \in Execute(db_up, Dialect(DATABASE_URL), ApprovalStatus, "status",
                                      WhereIfGiven(
                                        Select(approval_requests, "requested_at",
                                               LimitArg(limit, DefaultApprovalLimit)),
                                        ApprovalStatus, status))} :
                status \in StatusParams, limit \in LimitParams}
    ELSE UNION {{result.raised :
                   result \in Execute(db_up, Dialect(DATABASE_URL), Environment, "environment",
                                      WhereIfGiven(
                                        Select(deployments, "started_at",
                                               LimitArg(limit, DefaultDeploymentLimit)),
                                        Environment, environment))} :
                environment \in EnvironmentParams, limit \in LimitParams}

(* the handler has no statement left to await: it has executed them all,   *)
(* or get_approval has found no approval                                   *)
Returning(req) ==
    \/ ~UsesDb(req.endpoint)
    \/ req.executed = Statements(req.endpoint)
    \/ req.endpoint = "get_approval" /\ req.executed = 1 /\ req.approval_id = 0

(* the handler has ended, by a return or by an exception *)
Finished(req, raised) ==
    [req EXCEPT !.pc = "finished", !.raised = raised, !.executed = 0, !.approval_id = 0]

(* A request arrives.  For a handler that depends on get_db the generator  *)
(* is entered up to its yield: async with AsyncSessionLocal() as session.  *)
get_db_enter(r) ==
    /\ inflight[r].pc \in {"idle", "done"}
    /\ \E endpoint \in Endpoints :
          /\ inflight' = [inflight EXCEPT ![r] = [NoRequest EXCEPT !.pc = "running",
                                                                   !.endpoint = endpoint]]
          /\ sessions' = [sessions EXCEPT ![r] = IF UsesDb(endpoint) THEN @ + 1 ELSE @]
    /\ UNCHANGED <<DATABASE_URL, db_up, approval_requests, deployments, test_summaries,
                   security_scans, pc, request, response, executed, frame, connections>>

(* The handler reaches its first db.execute: the session takes a           *)
(* connection from the pool and keeps it until it is closed.  With the     *)
(* store out of reach no connection is made and the handler raises.        *)
checkout(r) ==
    /\ inflight[r].pc = "running"
    /\ UsesDb(inflight[r].endpoint)
    /\ inflight[r].executed = 0
    /\ connections[r] = 0
    /\ IF db_up
       THEN /\ connections' = [connections EXCEPT ![r] = 1]
            /\ UNCHANGED inflight
       ELSE /\ inflight' = [inflight EXCEPT ![r] = Finished(@, TRUE)]
            /\ UNCHANGED connections
    /\ UNCHANGED <<DATABASE_URL, db_up, approval_requests, deployments, test_summaries,
                   security_scans, pc, request, response, executed, frame, sessions>>

(* what the next statement of get_approval makes of the request: the       *)
(* approval looked up under some id, then its test summary, then its       *)
(* security scan, each read from the store as it is now; the statement     *)
(* raises when the store has gone out of reach                             *)
GetApprovalStatement(req) ==
    IF ~db_up
    THEN {Finished(req, TRUE)}
    ELSE IF req.executed = 0
    THEN {IF scalar_one_or_none(ById(approval_requests, approval_id)).value = None
          THEN [req EXCEPT !.executed = 1]
          ELSE [req EXCEPT !.executed = 1, !.approval_id = approval_id] :
            approval_id \in IdParams}
    ELSE LET table == IF req.executed = 1 THEN test_summaries ELSE security_scans
         IN IF scalar_one_or_none(ByApproval(table, req.approval_id)).raised
            THEN {Finished(req, TRUE)}
            ELSE {[req EXCEPT !.executed = @ + 1]}

(* A statement of the handler completes on the connection the session      *)
(* holds: the handler goes on to its next await or to its return, or the   *)
(* statement raises.  Other requests run before and after.                 *)
execute(r) ==
    /\ inflight[r].pc = "running"
    /\ connections[r] = 1
    /\ ~Returning(inflight[r])
    /\ \E after \in IF inflight[r].endpoint = "get_approval"
                     THEN GetApprovalStatement(inflight[r])
                     ELSE {IF raised THEN Finished(inflight[r], TRUE)
                           ELSE [inflight[r] EXCEPT !.executed = 1] :
                             raised \in Outcomes(inflight[r].endpoint)} :
          inflight' = [inflight EXCEPT ![r] = after]
    /\ UNCHANGED <<DATABASE_URL, db_up, approval_requests, deployments, test_summaries,
                   security_scans, pc, request, response, executed, frame, sessions,
                   connections>>

(* The handler returns its result; the session, and the connection if one  *)
(* was taken, are still held.                                              *)
handler_return(r) ==
    /\ inflight[r].pc = "running"
    /\ Returning(inflight[r])
    /\ inflight' = [inflight EXCEPT ![r] = Finished(@, FALSE)]
    /\ UNCHANGED <<DATABASE_URL, db_up, approval_requests, deployments, test_summaries,
                   security_scans, pc, request, response, executed, frame, sessions,
                   connections>>

(* the request is over: what is left of it is how its handler ended *)
Ended(req) == [NoRequest EXCEPT !.pc = "done", !.raised = req.raised]

(* a bug: no try/finally around the yield, so that an exception thrown     *)
(* into the generator skips the close                                      *)
get_db_exit_unprotected(r) ==
    /\ inflight[r].pc = "finished"
    /\ inflight' = [inflight EXCEPT ![r] = Ended(@)]
    /\ IF UsesDb(inflight[r].endpoint) /\ ~inflight[r].raised
       THEN /\ sessions' = [sessions EXCEPT ![r] = @ - 1]
            /\ connections' = [connections EXCEPT ![r] = 0]
       ELSE UNCHANGED <<sessions, connections>>
    /\ UNCHANGED <<DATABASE_URL, db_up, approval_requests, deployments, test_summaries,
                   security_scans, pc, request, response, executed, frame>>

(* The request ends.  The generator is resumed, or the handler's exception *)
(* is thrown into it; either way the finally clause runs session.close(),  *)
(* which gives the connection back to the pool.                            *)
get_db_exit(r) ==
    /\ inflight[r].pc = "finished"
    /\ inflight' = [inflight EXCEPT ![r] = Ended(@)]
    /\ IF UsesDb(inflight[r].endpoint)
       THEN /\ sessions' = [sessions EXCEPT ![r] = @ - 1]
            /\ connections' = [connections EXCEPT ![r] = 0]
       ELSE UNCHANGED <<sessions, connections>>
    /\ UNCHANGED <<DATABASE_URL, db_up, approval_requests, deployments, test_summaries,
                   security_scans, pc, request, response, executed, frame>>

(* Startup, with a store of at most one row: its contents only decide      *)
(* whether a statement raises.                                             *)
InitSessions == Configured(1, TRUE)

NextSessions ==
    \/ \E r \in Requests : get_db_enter(r)
    \/ \E r \in Requests : checkout(r)
    \/ \E r \in Requests : execute(r)
    \/ \E r \in Requests : handler_return(r)
    \/ \E r \in Requests : get_db_exit(r)
    \/ pipeline_commit(1, TRUE)
    \/ store_outage

SpecSessions == InitSessions /\ [][NextSessions]_vars

----------------------------------------------------------------------------
(* Vocabulary of the properties *)

Answered(endpoint) == pc = "responded" /\ request.endpoint = endpoint

Success == response.code = 200 /\ response.body.shape = "object"

Recognized(enum, param) == param # None /\ param[1] \in EnumValues(enum)

NonNegative(param, default) == LimitArg(param, default) >= 0

ApprovalIds(items) == {items[i].id : i \in DOMAIN items}

(* a filter value that names no member in any way: not a member's value,  *)
(* not a member's name, not the empty string                               *)
Unrecognized(enum, param) ==
    /\ param # None
    /\ param[1] \notin EnumValues(enum) \cup EnumNames(enum) \cup {""}

(* the rows a filter value can be said to select, read as widely as        *)
(* possible: every row when no value or an empty one is given, else the    *)
(* rows whose member has the value as its value or as its name             *)
Selected(table, enum, col, param) ==
    {r \in Rows(table) :
        \/ param = None
        \/ param[1] = ""
        \/ enum[r.row[col]] = param[1]
        \/ r.row[col] = param[1]}

----------------------------------------------------------------------------
(* C1: a list request with a valid status (environment) filter returns     *)
(* only rows whose status (environment) equals the filter; with the filter *)
(* and the limit omitted every row is returned, whatever its status.       *)
C1_FilterReturnsOnlyMatching ==
    /\ (Answered("list_approvals") /\ Success)
         => /\ Recognized(ApprovalStatus, request.status)
                 => \A i \in DOMAIN response.body.approvals :
                        response.body.approvals[i].status = request.status[1]
            /\ (request.status = None /\ request.limit = None)
                 => ApprovalIds(response.body.approvals) = DOMAIN approval_requests
    /\ (Answered("list_deployments") /\ Success)
         => /\ Recognized(Environment, request.environment)
                 => \A i \in DOMAIN response.body.deployments :
                        response.body.deployments[i].environment = request.environment[1]
            /\ (request.environment = None /\ request.limit = None)
                 => ApprovalIds(response.body.deployments) = DOMAIN deployments

(* a filtered approval list that kept one row and left out a row of        *)
(* another status                                                          *)
C1_Witness ==
    /\ Answered("list_approvals") /\ Success
    /\ Recognized(ApprovalStatus, request.status)
    /\ request.limit = None
    /\ response.body.count = 1
    /\ Cardinality(DOMAIN approval_requests) = 2

(* C4: for a limit >= 0 the returned list is no longer than the limit and  *)
(* count is its length.                                                    *)
C4_LengthWithinLimit ==
    /\ (Answered("list_approvals") /\ Success
          /\ NonNegative(request.limit, DefaultApprovalLimit))
         => /\ Len(response.body.approvals)
                  <= LimitArg(request.limit, DefaultApprovalLimit)
            /\ response.body.count = Len(response.body.approvals)
    /\ (Answered("list_deployments") /\ Success
          /\ NonNegative(request.limit, DefaultDeploymentLimit))
         => /\ Len(response.body.deployments)
                  <= LimitArg(request.limit, DefaultDeploymentLimit)
            /\ response.body.count = Len(response.body.deployments)

(* a limit that cut the list: more rows stored than asked for *)
C4_Witness ==
    /\ Answered("list_deployments") /\ Success
    /\ request.environment = None
    /\ request.limit = Some(1)
    /\ Cardinality(DOMAIN deployments) = 2
    /\ response.body.count = 1

(* C5: in a returned list the timestamp never increases from one element   *)
(* to the next, with or without a filter.                                  *)
C5_NonIncreasingTimestamps ==
    /\ (Answered("list_approvals") /\ Success)
         => \A i \in 1..(Len(response.body.approvals) - 1) :
               response.body.approvals[i].requested_at[1].iso
                 >= response.body.approvals[i + 1].requested_at[1].iso
    /\ (Answered("list_deployments") /\ Success)
         => \A i \in 1..(Len(response.body.deployments) - 1) :
               response.body.deployments[i].started_at[1].iso
                 >= response.body.deployments[i + 1].started_at[1].iso

(* two approvals returned newest first, against the order of their ids *)
C5_Witness ==
    /\ Answered("list_approvals") /\ Success
    /\ Len(response.body.approvals) = 2
    /\ response.body.approvals[1].id > response.body.approvals[2].id
    /\ response.body.approvals[1].requested_at[1].iso
         > response.body.approvals[2].requested_at[1].iso

(* C8: no request changes the contents of the store: every step of every   *)
(* endpoint, from the arrival of a request to its answer, leaves the four  *)
(* tables as they were; a row only changes by a commit of the pipeline,    *)
(* which is no step of a request.                                          *)
C8_StoreUnchanged ==
    [][serving' # serving
         => /\ approval_requests' = approval_requests
            /\ deployments' = deployments
            /\ test_summaries' = test_summaries
            /\ security_scans' = security_scans]_vars

(* an approval detail assembled from three reads of a populated store,     *)
(* its approval still pending                                              *)
C8_Witness ==
    /\ Answered("get_approval") /\ Success
    /\ executed = 3
    /\ response.body.test_summary # null
    /\ response.body.status = "pending"
    /\ approval_requests[request.approval_id].status = "PENDING"

(* C10: the health check answers 200 with status "healthy", service        *)
(* "backend" and a timestamp in every state of the store, reachable or     *)
(* not, and executes nothing on the store.                                 *)
C10_HealthAlwaysHealthy ==
    Answered("health_check")
      => /\ response.code = 200
         /\ response.body.shape = "object"
         /\ response.body.status = "healthy"
         /\ response.body.service = "backend"
         /\ response.body.timestamp # None
         /\ executed = 0

(* a health check answered while the store cannot be reached *)
C10_Witness ==
    /\ Answered("health_check")
    /\ ~db_up
    /\ response.code = 200

(* the row of a kind most recently recorded for an approval: the one with  *)
(* the greatest primary key                                                *)
Latest(rows) ==
    IF rows = {} THEN None
    ELSE Some(CHOOSE r \in rows : \A q \in rows : q.id <= r.id)

(* C2: the detail request for an id no approval has is answered 404 with a *)
(* body that carries an error field, never by an unhandled failure.        *)
C2_NotFoundIs404 ==
    (Answered("get_approval") /\ db_up
       /\ request.approval_id \notin DOMAIN approval_requests)
      => /\ response.code = 404
         /\ response.body.shape = "object"
         /\ "error" \in DOMAIN response.body

(* C3: the detail request for an existing approval succeeds whatever the   *)
(* number of its test summaries and security scans, and shows the latest   *)
(* row of each kind.                                                       *)
C3_ManyChildRowsSucceed ==
    (Answered("get_approval") /\ db_up
       /\ request.approval_id \in DOMAIN approval_requests)
      => /\ Success
         /\ response.body.test_summary =
              TestSummarySection(Latest(ByApproval(test_summaries, request.approval_id)))
         /\ response.body.security_scan =
              SecurityScanSection(Latest(ByApproval(security_scans, request.approval_id)))

(* C6: a list request whose filter value is none of the enumerated values  *)
(* is answered 200 with an empty list, or with a 4xx; never with a 5xx.    *)
C6_UnrecognizedFilterDoesNotCrash ==
    /\ (Answered("list_approvals") /\ db_up
          /\ NonNegative(request.limit, DefaultApprovalLimit)
          /\ Unrecognized(ApprovalStatus, request.status))
         => \/ Success /\ response.body.count = 0 /\ response.body.approvals = << >>
            \/ response.code \in 400..499
    /\ (Answered("list_deployments") /\ db_up
          /\ NonNegative(request.limit, DefaultDeploymentLimit)
          /\ Unrecognized(Environment, request.environment))
         => \/ Success /\ response.body.count = 0 /\ response.body.deployments = << >>
            \/ response.code \in 400..499

(* C7: the detail of an existing approval without a test summary is        *)
(* returned with test_summary null and the approval's status intact (the   *)
(* status of the approval as the request read it), and likewise            *)
(* security_scan is null without a security scan.                          *)
C7_AbsentChildIsNull ==
    (Answered("get_approval") /\ db_up
       /\ request.approval_id \in DOMAIN approval_requests)
      => /\ ByApproval(test_summaries, request.approval_id) = {}
              => /\ Success
                 /\ response.body.test_summary = null
                 /\ response.body.status = ApprovalStatus[frame.approval[1].row.status]
         /\ ByApproval(security_scans, request.approval_id) = {}
              => /\ Success
                 /\ response.body.security_scan = null
                 /\ response.body.status = ApprovalStatus[frame.approval[1].row.status]

(* C9: a list request that no row matches is answered 200 with an empty    *)
(* list and count 0.                                                       *)
C9_NoMatchIsEmptySuccess ==
    /\ (Answered("list_approvals") /\ db_up
          /\ NonNegative(request.limit, DefaultApprovalLimit)
          /\ Selected(approval_requests, ApprovalStatus, "status", request.status) = {})
         => Success /\ response.body.count = 0 /\ response.body.approvals = << >>
    /\ (Answered("list_deployments") /\ db_up
          /\ NonNegative(request.limit, DefaultDeploymentLimit)
          /\ Selected(deployments, Environment, "environment", request.environment) = {})
         => Success /\ response.body.count = 0 /\ response.body.deployments = << >>

(* C11: under every interleaving a request holds at most one session, it   *)
(* holds one exactly while a handler that depends on get_db is being       *)
(* served, and a request that has ended, by a return or by an exception,   *)
(* holds neither a session nor a connection: with every request ended no   *)
(* session is left.                                                        *)
C11_SessionsReleased ==
    \A r \in Requests :
        /\ sessions[r] <= 1
        /\ connections[r] <= sessions[r]
        /\ inflight[r].pc \in {"idle", "done"} => sessions[r] = 0
        /\ inflight[r].pc \in {"running", "finished"}
             => sessions[r] = IF UsesDb(inflight[r].endpoint) THEN 1 ELSE 0

(* one request has ended with an exception and holds nothing, while the    *)
(* other, between two statements of get_approval, still holds its session  *)
(* and a connection                                                        *)
C11_Witness ==
    /\ inflight[1].pc = "done" /\ inflight[1].raised /\ sessions[1] = 0
    /\ inflight[2].pc = "running" /\ inflight[2].endpoint = "get_approval"
    /\ inflight[2].executed = 2
    /\ sessions[2] = 1 /\ connections[2] = 1

(* the rows a valid or omitted filter asks for *)
Matching(table, enum, col, param) ==
    {r \in Rows(table) : param = None \/ enum[r.row[col]] = param[1]}

(* the matching rows that a list leaves out *)
Omitted(matching, items) == {r \in matching : r.id \notin ApprovalIds(items)}

(* C12: the filter is applied before the limit: with M rows matching a     *)
(* valid or omitted filter and a limit L >= 0, a store that can be reached *)
(* answers with exactly min(L, M) rows, all of them matching, and no       *)
(* matching row left out is newer than a row returned.                     *)
C12_FilterBeforeLimit ==
    /\ (Answered("list_approvals") /\ db_up
          /\ NonNegative(request.limit, DefaultApprovalLimit)
          /\ (request.status = None \/ Recognized(ApprovalStatus, request.status)))
         => LET matching == Matching(approval_requests, ApprovalStatus, "status",
                                     request.status)
                items == response.body.approvals
            IN /\ Success
               /\ Len(items) = Min(LimitArg(request.limit, DefaultApprovalLimit),
                                   Cardinality(matching))
               /\ ApprovalIds(items) \subseteq {r.id : r \in matching}
               /\ \A r \in Omitted(matching, items) : \A i \in DOMAIN items :
                     r.row.requested_at <= items[i].requested_at[1].iso
    /\ (Answered("list_deployments") /\ db_up
          /\ NonNegative(request.limit, DefaultDeploymentLimit)
          /\ (request.environment = None \/ Recognized(Environment, request.environment)))
         => LET matching == Matching(deployments, Environment, "environment",
                                     request.environment)
                items == response.body.deployments
            IN /\ Success
               /\ Len(items) = Min(LimitArg(request.limit, DefaultDeploymentLimit),
                                   Cardinality(matching))
               /\ ApprovalIds(items) \subseteq {r.id : r \in matching}
               /\ \A r \in Omitted(matching, items) : \A i \in DOMAIN items :
                     r.row.started_at <= items[i].started_at[1].iso

(* a production deployment returned under limit 1 although a newer staging *)
(* deployment comes first in the unfiltered order                          *)
C12_Witness ==
    /\ Answered("list_deployments") /\ Success
    /\ request.environment = Some("production")
    /\ request.limit = Some(1)
    /\ response.body.count = 1
    /\ \E i \in DOMAIN deployments :
          /\ deployments[i].environment = "STAGING"
          /\ deployments[i].started_at > response.body.deployments[1].started_at[1].iso

====
